---- MODULE Spec2Model ----
(***************************************************************************)
(* Catalog-and-ratings service (backend/app/main.py): a SQLite database    *)
(* file shared by successive server processes, the module-level ingestion  *)
(* of one TMDB page that every process runs while it is imported, and the  *)
(* five FastAPI request handlers that run once the import has completed.   *)
(*                                                                         *)
(* The database is modelled twice: `disk` is what has been committed to    *)
(* movies.db, and users/ratings/movies/useq/rseq are what the process's    *)
(* single connection sees (committed rows plus the writes of its open      *)
(* transaction).  conn.commit() copies the view to disk; a process that    *)
(* dies with an open transaction loses the writes that are not on disk.    *)
(***************************************************************************)
EXTENDS Integers, Sequences, FiniteSets, TLC

VARIABLES
    disk,       \* committed content of movies.db
    users,      \* connection view: rows of table users
    ratings,    \* connection view: rows of table ratings
    movies,     \* connection view: rows of table movies
    useq,       \* connection view: sqlite_sequence entry of users
    rseq,       \* connection view: sqlite_sequence entry of ratings
    inTxn,      \* conn.in_transaction
    cursor,     \* the shared cursor: lastrowid and rowcount
    pc,         \* "start", "loop", "serving" or "crashed"
    page,       \* data['results'] of the most recent retrieved page
    idx,        \* position of the ingestion loop in page
    req,        \* the request (or startup step) handled last
    resp,       \* its outcome
    runs,       \* number of processes started so far
    h,          \* history: what the claims compare the store with
    conc        \* the threads that handle requests at the same time, and the
                \* result set of the statement the shared cursor ran last

vars == <<disk, users, ratings, movies, useq, rseq, inTxn, cursor, pc, page,
          idx, req, resp, runs, h, conc>>

----------------------------------------------------------------------------
(* Bounds of the model *)

MaxUsers == 2       \* rows in users
MaxRatings == 2     \* rows in ratings
MaxRuns == 2        \* processes started on the same movies.db
MaxPage == 2        \* records in a page
MaxRequests == 3    \* requests handled by the threads of one process

Usernames == {"alice", "bob", "carol"}
UserIdArgs == 1..2                  \* user_id values clients send
MovieIdArgs == {42}                 \* movie_id values clients send
RatingArgs == {35, 45}              \* rating values, in tenths (4.5 is 45)
MovieIds == {42, 43}                \* integer ids the provider sends
RecKeys == {"id", "title", "release_date", "overview"}


----------------------------------------------------------------------------
(* Provider records and pages *)

\* The field values of a movie: (title, release_date, overview).
MovieFields ==
    { <<"Title A", "2024-01-01", "overview">>,
      <<"Title B", "2025-02-02", "other">> }

\* A record of data['results']: the keys it has, and their values.  idNull
\* says that the value of "id" is JSON null (None).
Rec(keys, idNull, id, f) ==
    [keys |-> keys, idNull |-> idNull, id |-> id,
     title |-> f[1], release_date |-> f[2], overview |-> f[3]]

FullRecords ==
    { Rec(RecKeys, FALSE, i, f) : i \in MovieIds, f \in MovieFields }
    \cup { Rec(RecKeys, TRUE, 0, f) : f \in {<<"Title A", "2024-01-01", "overview">>} }

PartialRecords ==
    { Rec(RecKeys \ {k}, FALSE, 42, <<"Title A", "2024-01-01", "overview">>) :
        k \in {"overview"} }

Records == FullRecords \cup PartialRecords

PagesUpTo(n) == UNION { [1..k -> Records] : k \in 0..n }

\* The pages of the full specification: none or one record, well-formed or
\* not.
ApiPages ==
    {<<>>}
    \cup { <<r>> : r \in PartialRecords \cup
                        {Rec(RecKeys, FALSE, 42, <<"Title A", "2024-01-01", "overview">>)} }

\* What the request to the provider and the decoding of its body can give:
\* TMDBClient() raises without TMDB_API_KEY, session.get raises when the
\* provider cannot be reached, response.json() raises on a body that is not
\* JSON, data['results'] raises on a body without that key (the provider's
\* error bodies have none).
Outcomes == {"ok", "no_api_key", "unreachable", "not_json", "no_results"}

\* Variant: a body without 'results' read as an empty page.
PageRetrievedLax(outcome) == outcome \in {"ok", "no_results"}

PageRetrieved(outcome) == outcome = "ok"

----------------------------------------------------------------------------
(* SQLite *)

Max2(a, b) == IF a >= b THEN a ELSE b

MaxId(T) ==
    IF T = {} THEN 0
    ELSE CHOOSE m \in {r.id : r \in T} : \A r \in T : r.id <= m

\* Variant: ids that start at 0 and repeat the largest id.
AutoIncrementFromZero(T, seq) == Max2(seq, MaxId(T))

\* id INTEGER PRIMARY KEY AUTOINCREMENT: one more than the largest id the
\* table has ever held.
AutoIncrement(T, seq) == Max2(seq, MaxId(T)) + 1

\* id INTEGER PRIMARY KEY given NULL: one more than the largest id present.
NextRowid(T) == MaxId(T) + 1

\* Variant: the column without its UNIQUE constraint.
UniqueNeverViolated(T, username) == FALSE

\* username TEXT UNIQUE
UniqueViolated(T, username) == \E u \in T : u.username = username

\* The id under which a record's row is stored.
StoredId(T, r) == IF r.idNull THEN NextRowid(T) ELSE r.id

\* Variant: a row put together from two records.
MovieRowTorn(T, r) ==
    [id |-> StoredId(T, r), title |-> r.title,
     release_date |-> r.release_date,
     overview |-> IF r.overview = "overview" THEN "other" ELSE "overview"]

MovieRow(T, r) ==
    [id |-> StoredId(T, r), title |-> r.title,
     release_date |-> r.release_date, overview |-> r.overview]

\* INSERT OR IGNORE INTO movies: a row whose id is taken is left as it is.
Conflicts(T, r) == \E m \in T : m.id = StoredId(T, r)

\* Variant: INSERT OR REPLACE, which overwrites the row whose id is taken.
InsertOrReplace(T, r) ==
    {m \in T : m.id # StoredId(T, r)} \cup {MovieRow(T, r)}

InsertOrIgnore(T, r) == IF Conflicts(T, r) THEN T ELSE T \cup {MovieRow(T, r)}

\* Rows of a table in rowid order, which is the order a scan returns them in.
RECURSIVE ById(_)
ById(T) ==
    IF T = {} THEN <<>>
    ELSE LET m == CHOOSE r \in T : \A q \in T : r.id <= q.id
         IN  <<m>> \o ById(T \ {m})

View == [users |-> users, ratings |-> ratings, movies |-> movies,
         useq |-> useq, rseq |-> rseq]

EmptyDb == [users |-> {}, ratings |-> {}, movies |-> {}, useq |-> 0, rseq |-> 0]


----------------------------------------------------------------------------
(* Requests, responses and the initial state *)

Req(op, id, username, movie_id, rating) ==
    [op |-> op, id |-> id, username |-> username, movie_id |-> movie_id,
     rating |-> rating]

Resp(status, detail, id, username, rows) ==
    [status |-> status, detail |-> detail, id |-> id, username |-> username,
     rows |-> rows]

NoReq == Req("none", 0, "", 0, 0)
NoResp == Resp(0, "", 0, "", <<>>)

\* A cursor before its first statement: lastrowid is None (0 here).
NewCursor == [lastrowid |-> 0, rowcount |-> -1]

NewHistory ==
    [registered |-> {},     \* (id, username) of every successful registration
     submitted |-> <<>>,    \* (user_id, movie_id, rating) of every submission
     first |-> {},          \* per stored movie id, the upsert that inserted it
     attempts |-> 0,        \* INSERT statements the loop of this run executed
     startMovies |-> {},    \* movies on disk when this process started
     fetched |-> "none",    \* outcome of this run's request to the provider
     done |-> FALSE,        \* the run that retrieved `page` committed
     rerun |-> FALSE,       \* this run retrieved the page of a committed run
     readAfter |-> -1]      \* INSERTs of this run before the last read elsewhere

\* The threads of the pool that runs the handlers (they are plain `def`s).
Threads == {"t1", "t2"}

IdleThread ==
    [pc |-> "idle",     \* "idle", "execute", "in_execute", "commit",
                        \* "lastrowid" or "fetch"
     req |-> NoReq,
     resp |-> NoResp,
     own |-> 0,         \* history: id of the row this request inserted
     src |-> "none"]    \* history: thread whose statement gave its rows

NoResult == [owner |-> "none", rows |-> <<>>]

NewConc == [thr |-> [t \in Threads |-> IdleThread], result |-> NoResult,
            started |-> 0]

\* lines 8-45 on a fresh movies.db: the three tables exist and are empty.
Init ==
    /\ disk = EmptyDb
    /\ users = {} /\ ratings = {} /\ movies = {}
    /\ useq = 0 /\ rseq = 0
    /\ inTxn = FALSE
    /\ cursor = NewCursor
    /\ pc = "start"
    /\ page = <<>>
    /\ idx = 1
    /\ req = NoReq
    /\ resp = NoResp
    /\ runs = 1
    /\ h = NewHistory
    /\ conc = NewConc

----------------------------------------------------------------------------
(* Startup: lines 57-69 and 134-136, run while the module is imported *)

\* Whether the tuple of line 66 can be built from the record.
HasAllKeys(r) == r.keys = RecKeys

\* conn.commit() of line 69: the database file after it.
CommitAllDisk(d, v) == v

\* What is left of a connection's view when its process dies.
Rollback == /\ users' = disk.users /\ ratings' = disk.ratings
            /\ movies' = disk.movies
            /\ useq' = disk.useq /\ rseq' = disk.rseq
            /\ inTxn' = FALSE

\* Variant: the listing cut to its first row.
MoviesListingFirst(T) == IF T = {} THEN <<>> ELSE <<ById(T)[1]>>

\* get_movies(): every row of movies, as the scan returns them.
MoviesListing(T) == ById(T)

\* lines 59-63: the request to the provider, the decoding of the body and
\* data['results'].  An exception here ends the import, and the process.
Fetch(pages) ==
    /\ pc = "start"
    /\ \E outcome \in Outcomes, recs \in pages :
        /\ outcome # "ok" => recs = <<>>
        /\ IF PageRetrieved(outcome)
           THEN /\ pc' = "loop"
                /\ page' = recs
                /\ h' = [h EXCEPT !.fetched = outcome, !.done = FALSE,
                                  !.rerun = h.done /\ recs = page]
           ELSE /\ pc' = "crashed"
                /\ page' = page
                /\ h' = [h EXCEPT !.fetched = outcome, !.rerun = FALSE]
    /\ idx' = 1
    /\ req' = Req("startup", 0, "", 0, 0)
    /\ resp' = NoResp
    /\ UNCHANGED <<disk, users, ratings, movies, useq, rseq, inTxn, cursor, runs>>
    /\ UNCHANGED conc

\* lines 63-67, one iteration on a record that has the four keys.
Upsert ==
    /\ pc = "loop"
    /\ idx <= Len(page)
    /\ HasAllKeys(page[idx])
    /\ LET r == page[idx]
           inserted == ~Conflicts(movies, r)
       IN  /\ movies' = InsertOrIgnore(movies, r)
           /\ cursor' = [lastrowid |-> IF inserted THEN StoredId(movies, r)
                                       ELSE cursor.lastrowid,
                         rowcount |-> IF inserted THEN 1 ELSE 0]
           /\ h' = [h EXCEPT !.attempts = h.attempts + 1,
                             !.first = IF inserted
                                       THEN h.first \cup
                                            {[id |-> StoredId(movies, r),
                                              title |-> r.title,
                                              release_date |-> r.release_date,
                                              overview |-> r.overview]}
                                       ELSE h.first]
    /\ inTxn' = TRUE
    /\ idx' = idx + 1
    /\ UNCHANGED <<disk, users, ratings, useq, rseq, pc, page, req, resp, runs>>
    /\ UNCHANGED conc

\* line 66 on a record without one of the four keys: KeyError, which nothing
\* catches, so the import fails and the process ends with its transaction
\* open.
RecordFails ==
    /\ pc = "loop"
    /\ idx <= Len(page)
    /\ ~HasAllKeys(page[idx])
    /\ pc' = "crashed"
    /\ Rollback
    /\ h' = [h EXCEPT !.first = {f \in h.first : \E m \in disk.movies : m.id = f.id}]
    /\ UNCHANGED <<disk, cursor, page, idx, req, resp, runs>>
    /\ UNCHANGED conc

\* line 69 after the loop, then lines 134-136: the listing is printed and
\* the application starts to serve.
CommitAll ==
    /\ pc = "loop"
    /\ idx > Len(page)
    /\ disk' = CommitAllDisk(disk, View)
    /\ inTxn' = FALSE
    /\ cursor' = [cursor EXCEPT !.rowcount = -1]
    /\ resp' = Resp(200, "", 0, "", MoviesListing(movies))
    /\ pc' = "serving"
    /\ h' = [h EXCEPT !.done = TRUE]
    /\ UNCHANGED <<users, ratings, movies, useq, rseq, page, idx, req, runs>>
    /\ UNCHANGED conc

\* The process is stopped (or has died) and a new one is started on the same
\* movies.db: lines 8-45, where CREATE TABLE IF NOT EXISTS changes nothing.
Restart ==
    /\ pc \in {"serving", "crashed"}
    /\ runs < MaxRuns
    /\ runs' = runs + 1
    /\ pc' = "start"
    /\ Rollback
    /\ cursor' = NewCursor
    /\ idx' = 1
    /\ req' = NoReq
    /\ resp' = NoResp
    /\ h' = [h EXCEPT !.attempts = 0, !.startMovies = disk.movies,
                      !.fetched = "none", !.rerun = FALSE, !.readAfter = -1]
    /\ UNCHANGED <<disk, page>>
    /\ UNCHANGED conc


----------------------------------------------------------------------------
(* Request handlers: lines 72-132.  Each runs as a whole. *)

\* Variant: the connection with PRAGMA foreign_keys = ON.
ForeignKeysEnforced == TRUE

\* The connection is opened without PRAGMA foreign_keys = ON, and SQLite
\* does not enforce FOREIGN KEY clauses unless it is set.
ForeignKeysOn == FALSE

ForeignKeyViolated(T, user_id) ==
    ForeignKeysOn /\ ~(\E u \in T : u.id = user_id)

\* conn.commit() of create_user and of add_rating: the file after it.
CreateUserDisk(d, v) == v

\* Variant: add_rating without its conn.commit().
AddRatingNoCommit(d, v) == d

AddRatingDisk(d, v) == v

\* Variant: the query without its WHERE clause.
SelectAnyUser(T, user_id) == ById(T)

\* SELECT * FROM users WHERE id=? then fetchone()
SelectUser(T, user_id) == ById({u \in T : u.id = user_id})

\* Variant: one entry per movie, the latest (as GROUP BY movie_id gives).
SelectDistinctRatings(T, user_id) ==
    LET mine == {r \in T : r.user_id = user_id}
        rows == ById({r \in mine :
                        \A q \in mine : q.movie_id = r.movie_id => q.id <= r.id})
    IN  [i \in 1..Len(rows) |->
            [movie_id |-> rows[i].movie_id, rating |-> rows[i].rating]]

\* Variant: the query without its WHERE clause.
SelectAllRatings(T, user_id) ==
    LET rows == ById(T)
    IN  [i \in 1..Len(rows) |->
            [movie_id |-> rows[i].movie_id, rating |-> rows[i].rating]]

\* SELECT movie_id, rating FROM ratings WHERE user_id=? then fetchall()
SelectRatings(T, user_id) ==
    LET rows == ById({r \in T : r.user_id = user_id})
    IN  [i \in 1..Len(rows) |->
            [movie_id |-> rows[i].movie_id, rating |-> rows[i].rating]]

\* POST /users/
CreateUser ==
    /\ pc = "serving"
    /\ \E username \in Usernames :
        /\ req' = Req("create_user", 0, username, 0, 0)
        /\ IF UniqueViolated(users, username)
           THEN \* sqlite3.IntegrityError: the statement is undone, the
                \* transaction it opened stays open
                /\ resp' = Resp(400, "Username already exists", 0, "", <<>>)
                /\ inTxn' = TRUE
                /\ cursor' = [cursor EXCEPT !.rowcount = -1]
                /\ UNCHANGED <<disk, users, useq, h>>
           ELSE /\ Cardinality(users) < MaxUsers
                /\ LET new == AutoIncrement(users, useq)
                       row == [id |-> new, username |-> username]
                   IN  /\ users' = users \cup {row}
                       /\ useq' = new
                       /\ cursor' = [lastrowid |-> new, rowcount |-> 1]
                       /\ disk' = CreateUserDisk(disk,
                                    [View EXCEPT !.users = users \cup {row},
                                                 !.useq = new])
                       /\ resp' = Resp(200, "User created successfully",
                                       cursor'.lastrowid, username, <<>>)
                       /\ h' = [h EXCEPT !.registered =
                                   h.registered \cup
                                   {[id |-> resp'.id, username |-> username]}]
                /\ inTxn' = FALSE
    /\ UNCHANGED <<ratings, movies, rseq, pc, page, idx, runs>>
    /\ UNCHANGED conc

\* GET /users/{user_id}
GetUser ==
    /\ pc = "serving"
    /\ \E user_id \in UserIdArgs :
        /\ req' = Req("get_user", user_id, "", 0, 0)
        /\ LET found == SelectUser(users, user_id)
           IN  resp' = IF found = <<>>
                       THEN Resp(404, "User not found", 0, "", <<>>)
                       ELSE Resp(200, "", found[1].id, found[1].username, <<>>)
    /\ cursor' = [cursor EXCEPT !.rowcount = -1]
    /\ UNCHANGED <<disk, users, ratings, movies, useq, rseq, inTxn, pc, page,
                   idx, runs, h>>
    /\ UNCHANGED conc

\* POST /ratings
AddRating ==
    /\ pc = "serving"
    /\ \E user_id \in UserIdArgs, movie_id \in MovieIdArgs, rating \in RatingArgs :
        /\ req' = Req("add_rating", user_id, "", movie_id, rating)
        /\ IF ForeignKeyViolated(users, user_id)
           THEN \* sqlite3.IntegrityError, which add_rating does not catch
                /\ resp' = Resp(500, "Internal Server Error", 0, "", <<>>)
                /\ inTxn' = TRUE
                /\ cursor' = [cursor EXCEPT !.rowcount = -1]
                /\ UNCHANGED <<disk, ratings, rseq, h>>
           ELSE /\ Cardinality(ratings) < MaxRatings
                /\ LET new == AutoIncrement(ratings, rseq)
                       row == [id |-> new, user_id |-> user_id,
                               movie_id |-> movie_id, rating |-> rating]
                   IN  /\ ratings' = ratings \cup {row}
                       /\ rseq' = new
                       /\ cursor' = [lastrowid |-> new, rowcount |-> 1]
                       /\ disk' = AddRatingDisk(disk,
                                    [View EXCEPT !.ratings = ratings \cup {row},
                                                 !.rseq = new])
                       /\ resp' = Resp(200, "Rating added successfully",
                                       cursor'.lastrowid, "", <<>>)
                       /\ h' = [h EXCEPT !.submitted =
                                   Append(h.submitted,
                                          [user_id |-> user_id,
                                           movie_id |-> movie_id,
                                           rating |-> rating])]
                /\ inTxn' = FALSE
    /\ UNCHANGED <<users, movies, useq, pc, page, idx, runs>>
    /\ UNCHANGED conc

\* GET /ratings/{user_id}
GetRatings ==
    /\ pc = "serving"
    /\ \E user_id \in UserIdArgs :
        /\ req' = Req("get_ratings", user_id, "", 0, 0)
        /\ LET found == SelectRatings(ratings, user_id)
           IN  resp' = IF found = <<>>
                       THEN Resp(404, "No ratings found for this user", 0, "", <<>>)
                       ELSE Resp(200, "", user_id, "", found)
    /\ cursor' = [cursor EXCEPT !.rowcount = -1]
    /\ UNCHANGED <<disk, users, ratings, movies, useq, rseq, inTxn, pc, page,
                   idx, runs, h>>
    /\ UNCHANGED conc

\* GET /movies/
GetMovies ==
    /\ pc = "serving"
    /\ req' = Req("get_movies", 0, "", 0, 0)
    /\ resp' = Resp(200, "", 0, "", MoviesListing(movies))
    /\ cursor' = [cursor EXCEPT !.rowcount = -1]
    /\ UNCHANGED <<disk, users, ratings, movies, useq, rseq, inTxn, pc, page,
                   idx, runs, h>>
    /\ UNCHANGED conc

\* get_movies (lines 123-132) in another process that serves the same
\* movies.db, such as another worker of the server, while this process is
\* at any point of its start: that process has its own connection (line 11
\* runs in each process), which sees what is committed.
ReadElsewhere ==
    /\ req' = Req("get_movies_elsewhere", 0, "", 0, 0)
    /\ resp' = Resp(200, "", 0, "", MoviesListing(disk.movies))
    /\ h' = [h EXCEPT !.readAfter = h.attempts]
    /\ UNCHANGED <<disk, users, ratings, movies, useq, rseq, inTxn, cursor, pc,
                   page, idx, runs, conc>>

----------------------------------------------------------------------------
(* Request handlers run by several threads: lines 72-132 with the one      *)
(* connection and the one cursor of lines 11-12 shared by all of them.     *)
(* A handler is a sequence of calls (cursor.execute, conn.commit, a read   *)
(* of cursor.lastrowid, cursor.fetchone or fetchall); the threads          *)
(* interleave between the calls, and a thread can call the cursor while    *)
(* another one is inside cursor.execute.                                   *)

\* The requests the threads handle.
ConcRequests ==
    { Req("create_user", 0, u, 0, 0) : u \in {"alice", "bob"} }
    \cup { Req("get_user", 1, "", 0, 0), Req("add_rating", 1, "", 42, 45),
           Req("get_ratings", 1, "", 0, 0), Req("get_movies", 0, "", 0, 0) }

\* The rows of a statement as the tuples the cursor returns.
UserTuples(T, user_id) ==
    LET rows == SelectUser(T, user_id)
    IN  [i \in 1..Len(rows) |-> <<rows[i].id, rows[i].username>>]

RatingTuples(T, user_id) ==
    LET rows == SelectRatings(T, user_id)
    IN  [i \in 1..Len(rows) |-> <<rows[i].movie_id, rows[i].rating>>]

MovieTuples(T) ==
    LET rows == MoviesListing(T)
    IN  [i \in 1..Len(rows) |->
            <<rows[i].id, rows[i].title, rows[i].release_date, rows[i].overview>>]

\* Another thread is inside cursor.execute.
CursorBusy(t) == \E o \in Threads \ {t} : conc.thr[o].pc = "in_execute"

ProcessUnchanged ==
    UNCHANGED <<disk, users, ratings, movies, useq, rseq, inTxn, cursor, pc,
                page, idx, req, resp, runs, h>>

\* A request arrives and a thread of the pool starts its handler.
Begin(t) ==
    /\ pc = "serving"
    /\ conc.thr[t].pc = "idle"
    /\ conc.started < MaxRequests
    /\ \E rq \in ConcRequests :
        conc' = [conc EXCEPT !.thr[t] = [IdleThread EXCEPT !.pc = "execute",
                                                           !.req = rq],
                             !.started = @ + 1]
    /\ ProcessUnchanged

\* cursor.execute is entered (lines 75, 87, 98, 111, 125).
EnterExecute(t) ==
    /\ pc = "serving"
    /\ conc.thr[t].pc = "execute"
    /\ ~CursorBusy(t)
    /\ conc' = [conc EXCEPT !.thr[t].pc = "in_execute"]
    /\ ProcessUnchanged

\* A call of the cursor while another thread is inside cursor.execute:
\* sqlite3 raises ProgrammingError ("Recursive use of cursors not allowed"),
\* which no handler catches.
CursorRaceError(t) ==
    /\ pc = "serving"
    /\ conc.thr[t].pc \in {"execute", "fetch"}
    /\ CursorBusy(t)
    /\ conc' = [conc EXCEPT !.thr[t].pc = "idle",
                            !.thr[t].resp =
                                Resp(500, "Internal Server Error", 0, "", <<>>)]
    /\ ProcessUnchanged

\* The same call, when the two threads corrupt the statement they share:
\* the process dies, with whatever was not committed.
CursorRaceCrash(t) ==
    /\ pc = "serving"
    /\ conc.thr[t].pc \in {"execute", "fetch"}
    /\ CursorBusy(t)
    /\ pc' = "crashed"
    /\ Rollback
    /\ UNCHANGED <<disk, cursor, page, idx, req, resp, runs, h, conc>>

\* The statement of cursor.execute runs.
Execute(t) ==
    /\ pc = "serving"
    /\ conc.thr[t].pc = "in_execute"
    /\ LET rq == conc.thr[t].req
           failed(status, detail) ==
               [conc EXCEPT !.thr[t].pc = "idle",
                            !.thr[t].resp = Resp(status, detail, 0, "", <<>>),
                            !.result = [owner |-> t, rows |-> <<>>]]
           inserted(new) ==
               [conc EXCEPT !.thr[t].pc = "commit",
                            !.thr[t].own = new,
                            !.result = [owner |-> t, rows |-> <<>>]]
           selected(rows) ==
               [conc EXCEPT !.thr[t].pc = "fetch",
                            !.result = [owner |-> t, rows |-> rows]]
       IN  CASE rq.op = "create_user" ->
                  IF UniqueViolated(users, rq.username)
                  THEN /\ conc' = failed(400, "Username already exists")
                       /\ inTxn' = TRUE
                       /\ cursor' = [cursor EXCEPT !.rowcount = -1]
                       /\ UNCHANGED <<users, useq, ratings, rseq>>
                  ELSE /\ Cardinality(users) < MaxUsers
                       /\ LET new == AutoIncrement(users, useq)
                          IN  /\ users' = users \cup
                                    {[id |-> new, username |-> rq.username]}
                              /\ useq' = new
                              /\ cursor' = [lastrowid |-> new, rowcount |-> 1]
                              /\ conc' = inserted(new)
                       /\ inTxn' = TRUE
                       /\ UNCHANGED <<ratings, rseq>>
             [] rq.op = "add_rating" ->
                  IF ForeignKeyViolated(users, rq.id)
                  THEN /\ conc' = failed(500, "Internal Server Error")
                       /\ inTxn' = TRUE
                       /\ cursor' = [cursor EXCEPT !.rowcount = -1]
                       /\ UNCHANGED <<users, useq, ratings, rseq>>
                  ELSE /\ Cardinality(ratings) < MaxRatings
                       /\ LET new == AutoIncrement(ratings, rseq)
                          IN  /\ ratings' = ratings \cup
                                    {[id |-> new, user_id |-> rq.id,
                                      movie_id |-> rq.movie_id,
                                      rating |-> rq.rating]}
                              /\ rseq' = new
                              /\ cursor' = [lastrowid |-> new, rowcount |-> 1]
                              /\ conc' = inserted(new)
                       /\ inTxn' = TRUE
                       /\ UNCHANGED <<users, useq>>
             [] rq.op = "get_user" ->
                  /\ conc' = selected(UserTuples(users, rq.id))
                  /\ cursor' = [cursor EXCEPT !.rowcount = -1]
                  /\ UNCHANGED <<users, useq, ratings, rseq, inTxn>>
             [] rq.op = "get_ratings" ->
                  /\ conc' = selected(RatingTuples(ratings, rq.id))
                  /\ cursor' = [cursor EXCEPT !.rowcount = -1]
                  /\ UNCHANGED <<users, useq, ratings, rseq, inTxn>>
             [] rq.op = "get_movies" ->
                  /\ conc' = selected(MovieTuples(movies))
                  /\ cursor' = [cursor EXCEPT !.rowcount = -1]
                  /\ UNCHANGED <<users, useq, ratings, rseq, inTxn>>
    /\ UNCHANGED <<disk, movies, pc, page, idx, req, resp, runs, h>>

\* conn.commit() of lines 76 and 102: everything the connection has written,
\* by whichever thread.
Commit(t) ==
    /\ pc = "serving"
    /\ conc.thr[t].pc = "commit"
    /\ disk' = IF conc.thr[t].req.op = "create_user"
               THEN CreateUserDisk(disk, View)
               ELSE AddRatingDisk(disk, View)
    /\ inTxn' = FALSE
    /\ conc' = [conc EXCEPT !.thr[t].pc = "lastrowid"]
    /\ UNCHANGED <<users, ratings, movies, useq, rseq, cursor, pc, page, idx,
                   req, resp, runs, h>>

\* lines 77-81 and 103-107: the answer, with cursor.lastrowid as it is now.
ReturnLastrowid(t) ==
    /\ pc = "serving"
    /\ conc.thr[t].pc = "lastrowid"
    /\ LET rq == conc.thr[t].req
       IN  conc' = [conc EXCEPT
                      !.thr[t].pc = "idle",
                      !.thr[t].resp =
                          IF rq.op = "create_user"
                          THEN Resp(200, "User created successfully",
                                    cursor.lastrowid, rq.username, <<>>)
                          ELSE Resp(200, "Rating added successfully",
                                    cursor.lastrowid, "", <<>>)]
    /\ ProcessUnchanged

\* lines 88-94, 112-121 and 126-132: fetchone() or fetchall() takes rows
\* from the statement the cursor ran last, and the answer is built from
\* them by position.
FetchAndReturn(t) ==
    /\ pc = "serving"
    /\ conc.thr[t].pc = "fetch"
    /\ ~CursorBusy(t)
    /\ LET rq == conc.thr[t].req
           rows == conc.result.rows
           done(answer, left) ==
               [conc EXCEPT !.thr[t].pc = "idle",
                            !.thr[t].resp = answer,
                            !.thr[t].src = conc.result.owner,
                            !.result.rows = left]
       IN  conc' =
             CASE rq.op = "get_user" ->
                    IF rows = <<>>
                    THEN done(Resp(404, "User not found", 0, "", <<>>), <<>>)
                    ELSE done(Resp(200, "", rows[1][1], rows[1][2], <<>>),
                              Tail(rows))
               [] rq.op = "get_ratings" ->
                    IF rows = <<>>
                    THEN done(Resp(404, "No ratings found for this user",
                                   0, "", <<>>), <<>>)
                    ELSE done(Resp(200, "", rq.id, "",
                                   [i \in 1..Len(rows) |->
                                      [movie_id |-> rows[i][1],
                                       rating |-> rows[i][2]]]), <<>>)
               [] rq.op = "get_movies" ->
                    IF \E i \in 1..Len(rows) : Len(rows[i]) < 4
                    THEN \* IndexError at m[2]
                         done(Resp(500, "Internal Server Error", 0, "", <<>>),
                              <<>>)
                    ELSE done(Resp(200, "", 0, "",
                                   [i \in 1..Len(rows) |->
                                      [id |-> rows[i][1], title |-> rows[i][2],
                                       release_date |-> rows[i][3],
                                       overview |-> rows[i][4]]]), <<>>)
    /\ ProcessUnchanged

\* The page of the process whose threads are modelled.
ConcPages ==
    {<<>>, <<Rec(RecKeys, FALSE, 42, <<"Title A", "2024-01-01", "overview">>)>>}

----------------------------------------------------------------------------
(* Specifications *)

\* The whole program, with the pages of ApiPages.
Next ==
    \/ Fetch(ApiPages)
    \/ Upsert
    \/ RecordFails
    \/ CommitAll
    \/ Restart
    \/ CreateUser
    \/ GetUser
    \/ AddRating
    \/ GetRatings
    \/ GetMovies

Spec == Init /\ [][Next]_vars

\* Startup and restarts alone, with pages of at most MaxPage records; the
\* only request is the listing of the movies.
NextIngest ==
    \/ Fetch(PagesUpTo(MaxPage))
    \/ Upsert
    \/ RecordFails
    \/ CommitAll
    \/ Restart
    \/ GetMovies

SpecIngest == Init /\ [][NextIngest]_vars


\* The ingestion of SpecIngest, with the movies listed from another process
\* at any point of it.
NextReaders ==
    \/ Fetch(PagesUpTo(MaxPage))
    \/ Upsert
    \/ RecordFails
    \/ CommitAll
    \/ Restart
    \/ GetMovies
    \/ ReadElsewhere

SpecReaders == Init /\ [][NextReaders]_vars

\* A process that starts, ingests a page and then handles requests in
\* several threads at once.
NextConc ==
    \/ Fetch(ConcPages)
    \/ Upsert
    \/ CommitAll
    \/ \E t \in Threads : Begin(t)
    \/ \E t \in Threads : EnterExecute(t)
    \/ \E t \in Threads : CursorRaceError(t)
    \/ \E t \in Threads : CursorRaceCrash(t)
    \/ \E t \in Threads : Execute(t)
    \/ \E t \in Threads : Commit(t)
    \/ \E t \in Threads : ReturnLastrowid(t)
    \/ \E t \in Threads : FetchAndReturn(t)

SpecConc == Init /\ [][NextConc]_vars

----------------------------------------------------------------------------
(* Properties *)

Ids(T) == {r.id : r \in T}

RECURSIVE SubmittedBy(_, _)
\* The (movie_id, rating) pairs of the submissions of a user, in order.
SubmittedBy(subs, user_id) ==
    IF subs = <<>> THEN <<>>
    ELSE LET rest == SubmittedBy(Tail(subs), user_id)
         IN  IF Head(subs).user_id = user_id
             THEN <<[movie_id |-> Head(subs).movie_id,
                     rating |-> Head(subs).rating]>> \o rest
             ELSE rest

\* C1: a create_user request with a username that a user row already has is
\* answered 400 "Username already exists", and leaves the users table (in
\* the connection and on disk) and its id sequence as they were.
C1_DuplicateUsernameRejected ==
    [][ ( /\ pc = "serving"
          /\ req'.op = "create_user"
          /\ \E u \in users : u.username = req'.username )
        => ( /\ resp'.status = 400
             /\ resp'.detail = "Username already exists"
             /\ users' = users
             /\ useq' = useq
             /\ disk'.users = disk.users ) ]_vars

C1_Witness ==
    /\ req.op = "create_user"
    /\ resp.status = 400
    /\ \E u \in users : u.username = req.username
    /\ Cardinality(users) = 2

\* C2: an upsert of a movie id that has no row inserts the row with the
\* values given and reports one row inserted; an upsert of an id that has a
\* row reports none inserted and leaves the table as it is; so every row
\* carries the values of the upsert that inserted it, and so does the
\* listing of the movies.
C2_InsertIfAbsent ==
    /\ [](movies = h.first)
    /\ [](req.op = "get_movies" => resp.rows = ById(h.first))
    /\ [][ ( /\ pc = "loop"
             /\ h'.attempts = h.attempts + 1
             /\ ~page[idx].idNull )
           => LET r == page[idx]
              IN  IF r.id \in Ids(movies)
                  THEN cursor'.rowcount = 0 /\ movies' = movies
                  ELSE /\ cursor'.rowcount = 1
                       /\ movies' = movies \cup
                            {[id |-> r.id, title |-> r.title,
                              release_date |-> r.release_date,
                              overview |-> r.overview]} ]_vars

C2_Witness ==
    /\ pc = "loop"
    /\ idx > 1
    /\ cursor.rowcount = 0
    /\ \E m \in movies :
        /\ m.id = page[idx - 1].id
        /\ m.title # page[idx - 1].title
        /\ m.overview # page[idx - 1].overview

\* C3: a run that retrieves the page of the run committed before it leaves
\* the movies table as it found it, and no two movie rows share an id.
C3_IngestionIdempotent ==
    /\ (pc = "serving" /\ h.rerun) => disk.movies = h.startMovies
    /\ \A m, n \in movies : m.id = n.id => m = n

\* C4: a run that retrieved its page ends by serving, having executed one
\* INSERT per record that has the four keys, each integer id of such a
\* record being the id of a committed row.
C4_BadRecordSkipped ==
    (pc \in {"serving", "crashed"} /\ h.fetched = "ok")
    => /\ pc = "serving"
       /\ h.attempts = Cardinality({i \in 1..Len(page) : HasAllKeys(page[i])})
       /\ \A i \in 1..Len(page) :
            (HasAllKeys(page[i]) /\ ~page[i].idNull)
            => page[i].id \in Ids(disk.movies)

\* C5: a run whose page is not retrieved (no key, provider unreachable, body
\* not JSON, body without results) ends at once: the loop executes no
\* INSERT and the movies table is the one the process started with.
C5_PageFailureWritesNothing ==
    (h.fetched \in Outcomes \ {"ok"})
    => /\ pc = "crashed"
       /\ h.attempts = 0
       /\ movies = h.startMovies
       /\ disk.movies = h.startMovies

C5_Witness ==
    /\ h.fetched = "no_results"
    /\ pc = "crashed"
    /\ h.startMovies # {}


\* C6: get_ratings for a user id answers 404 "No ratings found for this
\* user" exactly when no rating was submitted with that user_id (and no
\* rating row has it); otherwise it answers with that user id and one
\* (movie_id, rating) entry per submission made with it, with the values
\* submitted, and with nothing of another user.
C6_GetRatings ==
    (req.op = "get_ratings")
    => LET mine == SubmittedBy(h.submitted, req.id)
       IN  /\ resp.status \in {200, 404}
           /\ resp.status = 404 <=> mine = <<>>
           /\ resp.status = 404 <=> ~(\E r \in ratings : r.user_id = req.id)
           /\ resp.status = 404 => resp.detail = "No ratings found for this user"
           /\ resp.status = 200 => resp.id = req.id /\ resp.rows = mine

C6_Witness ==
    /\ req.op = "get_ratings"
    /\ resp.status = 200
    /\ Len(resp.rows) = 1
    /\ Len(h.submitted) = 2
    /\ \E i \in 1..2 : h.submitted[i].user_id # req.id

\* C7: get_user for an id answers 404 "User not found" exactly when no user
\* row has that id; otherwise it answers with the id and with the username
\* of the one registration that was answered with that id.
C7_GetUser ==
    (req.op = "get_user")
    => LET reg == {g \in h.registered : g.id = req.id}
       IN  /\ resp.status \in {200, 404}
           /\ resp.status = 404 <=> ~(\E u \in users : u.id = req.id)
           /\ resp.status = 404 => resp.detail = "User not found"
           /\ resp.status = 200 =>
                /\ resp.id = req.id
                /\ reg = {[id |-> req.id, username |-> resp.username]}

C7_Witness ==
    /\ req.op = "get_user"
    /\ resp.status = 200
    /\ resp.id = 2
    /\ Cardinality(users) = 2

\* C8 as stated: whenever an operation has returned, nothing it wrote is
\* uncommitted, so the connection's view of the tables is what is on disk.
C8_EveryWriteCommitted ==
    /\ users = disk.users
    /\ ratings = disk.ratings
    /\ movies = disk.movies

\* C8 as amended: once the application serves, that is after the single
\* commit that follows the ingestion loop and after every request, nothing
\* is uncommitted; a run that ends before that commit leaves on disk the
\* movies table it started with.
C8_CommittedWhenServing ==
    /\ pc = "serving" => View = disk
    /\ pc = "crashed" => disk.movies = h.startMovies

C8_Witness ==
    /\ pc = "serving"
    /\ req.op = "add_rating"
    /\ resp.status = 200
    /\ \E r \in disk.ratings : r.id = resp.id

C10_RatingsReferenceUsers ==
    \A r \in ratings : \E u \in users : u.id = r.user_id


\* C11: get_movies is answered 200 with one record per row of movies, each
\* with the row's four values, and with the empty list when there is none.
C11_GetMoviesListsAll ==
    (req.op = "get_movies")
    => /\ resp.status = 200
       /\ Len(resp.rows) = Cardinality(movies)
       /\ {resp.rows[i] : i \in 1..Len(resp.rows)} = movies
       /\ movies = {} => resp.rows = <<>>

C11_Witness ==
    /\ req.op = "get_movies"
    /\ Len(resp.rows) = 2
    /\ resp.rows[1].title # resp.rows[2].title

\* C12: the id a successful registration (a rating submission) is answered
\* with is 1 when none was answered before and is larger than every id
\* answered before; get_ratings for a user id then returns that id with the
\* entries submitted for it.
C12_IdsFromOneIncreasing ==
    /\ [][ (pc = "serving" /\ req'.op = "create_user" /\ resp'.status = 200)
           => /\ \A g \in h.registered : g.id < resp'.id
              /\ h.registered = {} => resp'.id = 1 ]_vars
    /\ [][ (pc = "serving" /\ req'.op = "add_rating" /\ resp'.status = 200)
           => /\ \A r \in ratings : r.id < resp'.id
              /\ h.submitted = <<>> => resp'.id = 1 ]_vars
    /\ []( (req.op = "get_ratings" /\ resp.status = 200)
           => /\ resp.id = req.id
              /\ resp.rows = SubmittedBy(h.submitted, req.id) )

C12_Witness ==
    /\ req.op = "get_ratings"
    /\ resp.status = 200
    /\ resp.id = 1
    /\ resp.rows = <<[movie_id |-> 42, rating |-> 45]>>
    /\ h.registered = {[id |-> 1, username |-> "alice"]}
    /\ ratings = {[id |-> 1, user_id |-> 1, movie_id |-> 42, rating |-> 45]}

\* C16: after an ingestion run that failed (page not retrieved, or a record
\* that cannot be read), the application serves: the read handlers can run.
C16_ApiSurvivesFailedIngestion ==
    (h.fetched \in Outcomes \ {"ok"} \/ (h.fetched = "ok" /\ pc = "crashed"))
    => /\ ENABLED GetUser
       /\ ENABLED GetRatings
       /\ ENABLED GetMovies

\* C17: a read handler changes no table; a successful create_user adds one
\* user row under a new id and changes no other table; add_rating adds one
\* rating row and changes no other table; the startup steps change neither
\* users nor ratings; no handler changes movies; no step changes or removes
\* a user row.
C17_Frames ==
    [][ /\ (pc = "serving" /\ req'.op \in {"get_user", "get_ratings", "get_movies"})
           => View' = View /\ disk' = disk
        /\ (pc = "serving" /\ req'.op = "create_user" /\ resp'.status = 200)
           => /\ \E row \in users' :
                    /\ row.id \notin Ids(users)
                    /\ users' = users \cup {row}
                    /\ disk'.users = disk.users \cup {row}
              /\ ratings' = ratings /\ disk'.ratings = disk.ratings
        /\ (pc = "serving" /\ req'.op = "add_rating")
           => /\ \E row \in ratings' :
                    /\ row.id \notin Ids(ratings)
                    /\ ratings' = ratings \cup {row}
                    /\ disk'.ratings = disk.ratings \cup {row}
              /\ users' = users /\ disk'.users = disk.users
        /\ (pc \in {"start", "loop"})
           => /\ users' = users /\ disk'.users = disk.users
              /\ ratings' = ratings /\ disk'.ratings = disk.ratings
        /\ (pc = "serving") => movies' = movies /\ disk'.movies = disk.movies
        /\ users \subseteq users' /\ disk.users \subseteq disk'.users ]_vars

C17_Witness ==
    /\ req.op = "create_user"
    /\ resp.status = 200
    /\ Cardinality(users) = 2
    /\ ratings # {}
    /\ movies # {}

\* C18: no step changes or removes a rating row; a submission for a
\* (user_id, movie_id) pair that has a rating adds a further row; get_ratings
\* returns as many entries as were submitted for the user.
C18_RatingsAppendOnly ==
    /\ [][ratings \subseteq ratings' /\ disk.ratings \subseteq disk'.ratings]_vars
    /\ [][ ( /\ pc = "serving"
             /\ req'.op = "add_rating"
             /\ \E r \in ratings : /\ r.user_id = req'.id
                                   /\ r.movie_id = req'.movie_id )
           => /\ resp'.status = 200
              /\ Cardinality(ratings') = Cardinality(ratings) + 1 ]_vars
    /\ []( (req.op = "get_ratings" /\ resp.status = 200)
           => Len(resp.rows) = Len(SubmittedBy(h.submitted, req.id)) )

C18_Witness ==
    /\ req.op = "get_ratings"
    /\ resp.status = 200
    /\ Len(resp.rows) = 2
    /\ resp.rows[1].movie_id = resp.rows[2].movie_id

\* A thread has answered the request it holds.
Answered(t) == conc.thr[t].pc = "idle" /\ conc.thr[t].resp # NoResp

\* C13: under any interleaving of concurrent create_user and add_rating
\* requests, a successful request returns the id of the row that this same
\* request inserted, never the id of a row another request inserted.
C13_ReturnsOwnId ==
    \A t \in Threads :
        (/\ Answered(t)
         /\ conc.thr[t].req.op \in {"create_user", "add_rating"}
         /\ conc.thr[t].resp.status = 200)
        => conc.thr[t].resp.id = conc.thr[t].own

\* C14: under any interleaving of concurrent create_user requests, no two
\* user rows have the same username, and of the registrations of one
\* username each one either succeeds or fails with "Username already
\* exists" (400), and at most one of them succeeds.
C14_UniqueAtomic ==
    /\ \A u1, u2 \in users : u1.username = u2.username => u1 = u2
    /\ \A t1, t2 \in Threads :
        (/\ t1 # t2
         /\ Answered(t1) /\ Answered(t2)
         /\ conc.thr[t1].req.op = "create_user"
         /\ conc.thr[t2].req.op = "create_user"
         /\ conc.thr[t1].req.username = conc.thr[t2].req.username)
        => /\ conc.thr[t1].resp.status \in {200, 400}
           /\ conc.thr[t2].resp.status \in {200, 400}
           /\ ~(conc.thr[t1].resp.status = 200 /\ conc.thr[t2].resp.status = 200)

\* C15: under any interleaving of concurrent requests, a read handler
\* (get_user, get_ratings, get_movies) answers as it would alone: it does
\* not fail, and the rows it answers from are those of its own query, never
\* those of another request's statement.
C15_ReadsIndependent ==
    \A t \in Threads :
        (/\ Answered(t)
         /\ conc.thr[t].req.op \in {"get_user", "get_ratings", "get_movies"})
        => /\ conc.thr[t].resp.status # 500
           /\ conc.thr[t].src = t

\* C19: a listing of the movies, made in this process or in another one at
\* any point of an ingestion run, holds each row as one INSERT of the
\* ingestion wrote it (its four fields from one record), and no id twice.
C19_ReadsSeeWholeRows ==
    (req.op \in {"get_movies", "get_movies_elsewhere"})
    => /\ \A i \in 1..Len(resp.rows) : resp.rows[i] \in h.first
       /\ \A i, j \in 1..Len(resp.rows) :
            resp.rows[i].id = resp.rows[j].id => i = j

C19_Witness ==
    /\ req.op = "get_movies_elsewhere"
    /\ pc = "loop"
    /\ h.readAfter >= 1
    /\ Len(resp.rows) >= 1
    /\ \E m \in movies : \A i \in 1..Len(resp.rows) : resp.rows[i] # m
====
